---- MODULE Spec2Model ----
(***************************************************************************)
(* A model of openvpn-monitor.py (class OpenvpnMonitor): the status parser *)
(* parse_status, run line by line over a reply, and the transport          *)
(* send_command with its per-chunk '>INFO' stripping.                      *)
(*                                                                         *)
(* Representation.  A reply handed to parse_status is a sequence of lines, *)
(* each line being the list `parts` that line.split(',') / split('\t')     *)
(* yields (lines 225-230).  A field is an atomic string; int(), get_date() *)
(* ip_address() and str.split(':') are modelled by tables that are defined *)
(* exactly on the strings the Python function accepts, so that every other *)
(* string raises ValueError as in the code.  Address objects are modelled  *)
(* by their canonical text, datetimes by their epoch seconds.              *)
(***************************************************************************)
EXTENDS Integers, Sequences, FiniteSets, TLC

VARIABLES
    \* ---- parse_status (lines 216-349) ----
    data,               \* the reply: data.splitlines(), each line split
    i,                  \* number of lines the for loop has consumed
    pc,                 \* "start" | "loop" | "returned" | "raised"
    err,                \* the exception that ended the parse, "" if none
    client_section,     \* line 218
    routes_section,     \* line 219
    status_version,     \* line 220
    sessions,           \* line 221
    client_session,     \* line 222
    remote_ip_address,  \* the function-scope local of line 300
    nuuid,              \* how many times uuid4() has been called
    lookups,            \* addresses passed to gi.record_by_addr, in order
    \* ---- send_command (lines 161-174) ----
    command,            \* the command sent
    wire,               \* what the daemon has sent and recv has not returned
    eof,                \* the peer closes once the wire is drained
    sc_data,            \* the local `data` of send_command
    sc_pc,              \* "idle" | "call" | "send" | "recv" | "returned"
                        \*        | "raised" | "done"
    buffers,            \* what the calls of lines 125-131 returned, in order
    \* ---- re.sub('>INFO(.)*\r\n', '', s) applied repeatedly ----
    raw,                \* the input string
    cleaned,            \* the result of the passes made so far
    passes,             \* the results of the passes, in order
    \* ---- OpenvpnMonitor.__init__ (lines 116-122) ----
    vpns,               \* self.vpns: one dict per endpoint, in config order
    daemons,            \* how the daemon behind each endpoint behaves
    cur,                \* position of the for loop of line 117
    run_pc,             \* "idle" | "loop" | "collect" | "disconnect"
                        \*        | "done" | "raised"
    run_err,            \* the exception that left __init__, "" if none
    step,               \* exchanges collect_data has completed
    self_s,             \* self.s
    log,                \* what happened on the network, in order
    \* ---- parse_version, parse_state, parse_stats as functions ----
    fn,                 \* the parser called
    arg,                \* the reply it is called on
    ret,                \* what it returned
    fn_err,             \* the exception it raised, "" if none
    fn_pc               \* "idle" | "call" | "returned" | "raised"

statusVars == <<data, i, pc, err, client_section, routes_section,
                status_version, sessions, client_session,
                remote_ip_address, nuuid, lookups>>

sendVars == <<command, wire, eof, sc_data, sc_pc, buffers>>
stripVars == <<raw, cleaned, passes>>

runVars == <<vpns, daemons, cur, run_pc, run_err, step, self_s, log>>
fnVars == <<fn, arg, ret, fn_err, fn_pc>>
restVars == <<runVars, fnVars>>

vars == <<statusVars, sendVars, stripVars, restVars>>

(***************************************************************************)
(* Bounds.                                                                 *)
(***************************************************************************)
MaxLines == 4
\* fragments of a daemon stream
MaxFrags == 4
\* pieces of an input of the '>INFO' substitution
MaxPieces == 5
\* largest counter of a load-stats reply
MaxNum == 11
\* endpoints of a configuration
MaxVpns == 3

(***************************************************************************)
(* Python values.                                                          *)
(***************************************************************************)
\* a local variable that has not been assigned yet
Unbound == "<unbound>"
\* Python's None (only ever compared with strings here)
None == "<None>"

\* parts[n] with Python's 0-based index
P(parts, n) == parts[n + 1]
HasIdx(parts, n) == n + 1 <= Len(parts)

\* int(s): defined on decimal strings only
IntTable ==
    ("0" :> 0) @@ ("1000" :> 1000) @@ ("2000" :> 2000) @@ ("3000" :> 3000)
    @@ ("4000" :> 4000) @@ ("53211" :> 53211) @@ ("1194" :> 1194)
IsInt(s) == s \in DOMAIN IntTable
int(s) == IF IsInt(s) THEN IntTable[s] ELSE -1

\* get_date(s, uts=True) = datetime.fromtimestamp(float(s)), lines 52-53
UtsTable ==
    ("1700000000" :> 1700000000) @@ ("1700000100" :> 1700000100)
    @@ ("1700000500" :> 1700000500) @@ ("1700000600" :> 1700000600)
\* get_date(s) = datetime.strptime(s, "%a %b %d %H:%M:%S %Y"), lines 50-51
StrptimeTable ==
    ("Thu Jun 18 04:23:03 2015" :> 1434601383)
    @@ ("Thu Jun 18 04:28:03 2015" :> 1434601683)
IsDate(s, uts) == s \in DOMAIN (IF uts THEN UtsTable ELSE StrptimeTable)
get_date(s, uts) ==
    IF ~IsDate(s, uts) THEN -1
    ELSE IF uts THEN UtsTable[s] ELSE StrptimeTable[s]

\* ip_address(s): the strings that are addresses, with the two properties
\* of the address object the parser reads (is_private as the ipaddress
\* module answers: 203.0.113.0/24 is a documentation range and private)
AddrTable ==
    ("10.8.0.6" :> [is_private |-> TRUE, ipv4_mapped |-> None])
    @@ ("10.8.0.10" :> [is_private |-> TRUE, ipv4_mapped |-> None])
    @@ ("192.168.1.7" :> [is_private |-> TRUE, ipv4_mapped |-> None])
    @@ ("203.0.113.5" :> [is_private |-> TRUE, ipv4_mapped |-> None])
    @@ ("8.8.8.8" :> [is_private |-> FALSE, ipv4_mapped |-> None])
    @@ ("::ffff:8.8.8.8" :> [is_private |-> FALSE, ipv4_mapped |-> "8.8.8.8"])
    @@ ("::ffff:10.8.0.6" :> [is_private |-> TRUE, ipv4_mapped |-> "10.8.0.6"])
IsAddr(s) == s \in DOMAIN AddrTable
ip_address(s) == IF IsAddr(s) THEN s ELSE Unbound

\* s.split(':') for the strings that hold exactly one colon; every other
\* string of the model holds none or more than one
ColonTable ==
    ("203.0.113.5:53211" :> <<"203.0.113.5", "53211">>)
    @@ ("192.168.1.7:1194" :> <<"192.168.1.7", "1194">>)
    @@ ("198.51.100.9:4000" :> <<"198.51.100.9", "4000">>)
    @@ ("8.8.8.8:1194" :> <<"8.8.8.8", "1194">>)
OneColon(s) == s \in DOMAIN ColonTable

\* uuid4(): str(uuid4()) is a 36-character token; the n-th call of one
\* parse returns the n-th token, so that a token is never handed out twice
\* and never is the text of an address
UuidTokens ==
    <<"uuid-1", "uuid-2", "uuid-3", "uuid-4", "uuid-5", "uuid-6", "uuid-7">>
uuid4(n) == UuidTokens[n + 1]

\* gi.record_by_addr(addr): a record, None, or SystemError (lines 322-325)
GeoRecord ==
    [country_code |-> "AU", city |-> "Melbourne",
     country_name |-> "Australia", longitude |-> 145, latitude |-> -38]
GeoOutcomes == {"record", "None", "SystemError"}

\* sessions[k] = v
Put(map, k, v) == (k :> v) @@ map
\* sessions[k][f] = v
PutField(map, k, f, v) == [map EXCEPT ![k] = (f :> v) @@ @]

(***************************************************************************)
(* The loop body of parse_status, lines 225-340.  The parser's locals are  *)
(* carried in a record st; out is how the iteration ends: "continue" (next *)
(* line), "break" (line 236) or "raise" (an uncaught exception, err).      *)
(***************************************************************************)
\* parts[n], or "" where the index does not exist (never read in that case)
F(parts, n) == IF HasIdx(parts, n) THEN P(parts, n) ELSE ""

\* the exception int(parts[n]) raises, "" if none
IntErr(parts, n) ==
    IF ~HasIdx(parts, n) THEN "IndexError"
    ELSE IF ~IsInt(P(parts, n)) THEN "ValueError" ELSE ""

\* the exception get_date(parts[n], uts) raises, "" if none
DateErr(parts, n, uts) ==
    IF ~HasIdx(parts, n) THEN "IndexError"
    ELSE IF ~IsDate(P(parts, n), uts) THEN "ValueError" ELSE ""

Raise(st, e) == [st EXCEPT !.out = "raise", !.err = e]

\* One assignment statement: target t ("session": session[f] = v on the
\* record stored under ident; "local": remote_ip_address = v), raising e
\* instead when evaluating its right-hand side raises.
Stmt(t, f, e, v) == [t |-> t, f |-> f, e |-> e, v |-> v]

\* Statements run in order until one raises.
RECURSIVE Run(_, _, _)
Run(st, ident, stmts) ==
    IF stmts = << >> \/ st.out = "raise" THEN st
    ELSE LET s == Head(stmts)
             next ==
                 IF s.e # "" THEN Raise(st, s.e)
                 ELSE IF s.t = "session"
                      THEN [st EXCEPT !.sessions = PutField(@, ident, s.f, s.v)]
                      ELSE [st EXCEPT !.ria = s.v]
         IN Run(next, ident, Tail(stmts))

\* IdentV3 without the token of line 292: a row without tunnel IP keyed ''
IdentV3_NoToken(local_ip, n) == local_ip

\* lines 288-292: the key of a V3 client row
IdentV3(local_ip, n) == IF local_ip # "" THEN local_ip ELSE uuid4(n)

\* line 280: the key of a V1 client row
IdentV1(parts) == P(parts, 1)

\* lines 295-299: remote_ip, port of a V3 row
RemoteV3(remote) ==
    IF OneColon(remote) THEN ColonTable[remote] ELSE <<remote, None>>

\* lines 309-331: location, remote_ip, port and the geolocation lookup,
\* common to both dialects; port is the local assigned by the dialect branch
Locate(st, ident, port, gir) ==
    LET s1 == Run(st, ident, <<
                Stmt("session", "location", "", "Unknown"),
                Stmt("session", "remote_ip",
                     IF st.ria = Unbound THEN "UnboundLocalError" ELSE "",
                     IF st.ria # Unbound /\ AddrTable[st.ria].ipv4_mapped # None
                     THEN AddrTable[st.ria].ipv4_mapped ELSE st.ria),
                Stmt("session", "port",
                     IF port \notin {None, ""} /\ ~IsInt(port)
                     THEN "ValueError" ELSE "",
                     IF port \notin {None, ""} THEN int(port) ELSE "") >>)
    IN  IF s1.out = "raise" THEN s1
        ELSE LET rip == s1.sessions[ident].remote_ip IN
             IF AddrTable[rip].is_private
             THEN Run(s1, ident, << Stmt("session", "location", "", "RFC1918") >>)
             ELSE LET s2 == [s1 EXCEPT !.lookups = Append(@, rip)] IN
                  IF gir # "record" THEN s2
                  ELSE Run(s2, ident, <<
                      Stmt("session", "location", "", GeoRecord.country_code),
                      Stmt("session", "city", "", GeoRecord.city),
                      Stmt("session", "country_name", "", GeoRecord.country_name),
                      Stmt("session", "longitude", "", GeoRecord.longitude),
                      Stmt("session", "latitude", "", GeoRecord.latitude) >>)

\* lines 279-286 and 309-331: a client row under status_version 1
ClientRowV1(st, parts, gir) ==
    IF ~HasIdx(parts, 1) THEN Raise(st, "IndexError")
    ELSE
    LET ident == IdentV1(parts)
        s0 == [st EXCEPT !.sessions = Put(@, ident, << >>)]
        hp == IF OneColon(ident) THEN ColonTable[ident] ELSE <<ident, None>>
        s1 == Run(s0, ident, <<
                Stmt("session", "username", "", P(parts, 0)),
                \* remote_ip, port = parts[1].split(':')
                Stmt("session", "bytes_recv",
                     IF ~OneColon(ident) THEN "ValueError" ELSE IntErr(parts, 2),
                     int(F(parts, 2))),
                Stmt("session", "bytes_sent", IntErr(parts, 3), int(F(parts, 3))),
                Stmt("session", "connected_since", DateErr(parts, 4, FALSE),
                     get_date(F(parts, 4), FALSE)) >>)
    IN  IF s1.out = "raise" THEN s1 ELSE Locate(s1, ident, hp[2], gir)

\* lines 287-308 and 309-331: a client row under status_version 3
ClientRowV3(st, parts, gir) ==
    IF ~HasIdx(parts, 3) THEN Raise(st, "IndexError")
    ELSE
    LET local_ip == P(parts, 3)
        ident == IdentV3(local_ip, st.nuuid)
        s0 == [st EXCEPT !.sessions = Put(@, ident, << >>),
                         !.nuuid = IF local_ip # "" THEN @ ELSE @ + 1]
        hp == RemoteV3(P(parts, 2))
        since == get_date(F(parts, 7), TRUE)
        s1 == Run(s0, ident, <<
                Stmt("session", "username", "", P(parts, 1)),
                Stmt("local", "remote_ip_address",
                     IF ~IsAddr(hp[1]) THEN "ValueError" ELSE "",
                     ip_address(hp[1])),
                Stmt("session", "local_ip",
                     IF local_ip # "" /\ ~IsAddr(local_ip)
                     THEN "ValueError" ELSE "",
                     IF local_ip # "" THEN ip_address(local_ip) ELSE ""),
                Stmt("session", "bytes_recv", IntErr(parts, 4), int(F(parts, 4))),
                Stmt("session", "bytes_sent", IntErr(parts, 5), int(F(parts, 5))),
                Stmt("session", "connected_since", DateErr(parts, 7, TRUE), since),
                Stmt("session", "last_seen", "", since) >>)
    IN  IF s1.out = "raise" THEN s1 ELSE Locate(s1, ident, hp[2], gir)

\* lines 333-336: a routing-table row under status_version 1
RouteRowV1(st, parts) ==
    IF ~HasIdx(parts, 2) THEN Raise(st, "IndexError")
    ELSE
    LET ident == P(parts, 2) IN
    Run(st, ident, <<
        Stmt("session", "local_ip",
             IF ~IsAddr(P(parts, 0)) THEN "ValueError"
             ELSE IF ident \notin DOMAIN st.sessions THEN "KeyError" ELSE "",
             ip_address(P(parts, 0))),
        Stmt("session", "last_seen", DateErr(parts, 3, FALSE),
             get_date(F(parts, 3), FALSE)) >>)

\* RouteRowV3 without the membership test of line 339, on a mapping that
\* creates the entry it is asked for
RouteRowV3_Creating(st, parts) ==
    IF ~HasIdx(parts, 1) THEN Raise(st, "IndexError")
    ELSE
    LET local_ip == P(parts, 1)
        s0 == IF local_ip \in DOMAIN st.sessions THEN st
              ELSE [st EXCEPT !.sessions = Put(@, local_ip, << >>)]
    IN Run(s0, local_ip, <<
            Stmt("session", "last_seen", DateErr(parts, 5, TRUE),
                 get_date(F(parts, 5), TRUE)) >>)

\* RouteRowV3 writing the row's time to connected_since as well
RouteRowV3_StampsSince(st, parts) ==
    IF ~HasIdx(parts, 1) THEN Raise(st, "IndexError")
    ELSE
    LET local_ip == P(parts, 1) IN
    IF local_ip \in DOMAIN st.sessions
    THEN Run(st, local_ip, <<
            Stmt("session", "last_seen", DateErr(parts, 5, TRUE),
                 get_date(F(parts, 5), TRUE)),
            Stmt("session", "connected_since", DateErr(parts, 5, TRUE),
                 get_date(F(parts, 5), TRUE)) >>)
    ELSE st

\* lines 337-340: a routing-table row under status_version 3
RouteRowV3(st, parts) ==
    IF ~HasIdx(parts, 1) THEN Raise(st, "IndexError")
    ELSE
    LET local_ip == P(parts, 1) IN
    IF local_ip \in DOMAIN st.sessions
    THEN Run(st, local_ip, <<
            Stmt("session", "last_seen", DateErr(parts, 5, TRUE),
                 get_date(F(parts, 5), TRUE)) >>)
    ELSE st

\* lines 278-340: a data row, by section and dialect
DataRow(st, parts, gir) ==
    LET s1 == IF st.cs /\ ~st.rs
              THEN IF st.sv = 1 THEN ClientRowV1(st, parts, gir)
                   ELSE IF st.sv = 3 THEN ClientRowV3(st, parts, gir)
                   ELSE st
              ELSE st
    IN  IF s1.out = "raise" THEN s1
        ELSE IF s1.rs /\ ~s1.cs
             THEN IF s1.sv = 1 THEN RouteRowV1(s1, parts)
                  ELSE IF s1.sv = 3 THEN RouteRowV3(s1, parts)
                  ELSE s1
             ELSE s1

\* str.startswith on the first field
StartsWithGLOBAL(s) == s \in {"GLOBAL", "GLOBAL STATS", "GLOBAL_STATS"}
StartsWithCLIENT(s) == s \in {">CLIENT:ESTABLISHED", ">CLIENT:ENV"}

\* lines 262-277: the counter lines of a client-mode reply
CounterKey ==
    ("TUN/TAP read bytes" :> "tuntap_read")
    @@ ("TUN/TAP write bytes" :> "tuntap_write")
    @@ ("TCP/UDP read bytes" :> "tcpudp_read")
    @@ ("TCP/UDP write bytes" :> "tcpudp_write")
    @@ ("Auth read bytes" :> "auth_read")

\* CounterLine storing the record at every counter line
CounterLine_AlwaysStores(st, parts) ==
    IF IntErr(parts, 1) # "" THEN Raise(st, IntErr(parts, 1))
    ELSE LET obj == IF "Client" \in DOMAIN st.sessions
                    THEN st.sessions["Client"] ELSE st.client_session
             cs2 == (CounterKey[P(parts, 0)] :> int(P(parts, 1))) @@ obj
         IN [st EXCEPT !.client_session = cs2,
                       !.sessions = Put(@, "Client", cs2)]

CounterLine(st, parts) ==
    IF IntErr(parts, 1) # "" THEN Raise(st, IntErr(parts, 1))
    ELSE LET obj == IF "Client" \in DOMAIN st.sessions
                    THEN st.sessions["Client"] ELSE st.client_session
             cs2 == (CounterKey[P(parts, 0)] :> int(P(parts, 1))) @@ obj
             \* sessions['Client'] is the object client_session itself: a
             \* later counter line shows through the stored record
             shown == IF "Client" \in DOMAIN st.sessions
                          \/ P(parts, 0) = "Auth read bytes"
                      THEN Put(st.sessions, "Client", cs2)
                      ELSE st.sessions
         IN [st EXCEPT !.client_session = cs2, !.sessions = shown]

\* a GLOBAL line that is passed over like any other line
GlobalLine_Continue(st) == st

\* lines 235-236: the line that ends the loop
GlobalLine(st) == [st EXCEPT !.out = "break"]

\* a HEADER line that leaves the dialect as it was
HeaderLine_KeepsDialect(st, parts) ==
    IF ~HasIdx(parts, 1) THEN Raise(st, "IndexError")
    ELSE [st EXCEPT
            !.cs = IF P(parts, 1) = "CLIENT_LIST" THEN TRUE
                   ELSE IF P(parts, 1) = "ROUTING_TABLE" THEN FALSE ELSE @,
            !.rs = IF P(parts, 1) = "ROUTING_TABLE" THEN TRUE
                   ELSE IF P(parts, 1) = "CLIENT_LIST" THEN FALSE ELSE @]

\* lines 237-245: a V3 header line; parts[1] of a one-field line raises
HeaderLine(st, parts) ==
    IF ~HasIdx(parts, 1)
    THEN Raise([st EXCEPT !.sv = 3], "IndexError")
    ELSE [st EXCEPT
            !.sv = 3,
            !.cs = IF P(parts, 1) = "CLIENT_LIST" THEN TRUE
                   ELSE IF P(parts, 1) = "ROUTING_TABLE" THEN FALSE ELSE @,
            !.rs = IF P(parts, 1) = "ROUTING_TABLE" THEN TRUE
                   ELSE IF P(parts, 1) = "CLIENT_LIST" THEN FALSE ELSE @]

\* a V1 client header that leaves routes_section as it was
CommonNameLine_KeepsRoutes(st) == [st EXCEPT !.sv = 1, !.cs = TRUE]

\* lines 248-252: the V1 client header
CommonNameLine(st) == [st EXCEPT !.sv = 1, !.cs = TRUE, !.rs = FALSE]

\* lines 253-257: the V1 routing title and routing header
RoutingTableLine(st) == [st EXCEPT !.sv = 1, !.cs = FALSE, !.rs = TRUE]

\* lines 235-340: one iteration of the for loop
ProcessLine(st, parts, gir) ==
    LET p0 == P(parts, 0) IN
    IF StartsWithGLOBAL(p0) THEN GlobalLine(st)
    ELSE IF p0 = "HEADER" THEN HeaderLine(st, parts)
    ELSE IF p0 = "Updated" THEN st
    ELSE IF p0 = "Common Name" THEN CommonNameLine(st)
    ELSE IF p0 = "ROUTING TABLE" \/ p0 = "Virtual Address"
    THEN RoutingTableLine(st)
    ELSE IF StartsWithCLIENT(p0) THEN st
    ELSE IF p0 \in DOMAIN CounterKey THEN CounterLine(st, parts)
    ELSE DataRow(st, parts, gir)

(***************************************************************************)
(* The replies parse_status is run on: every sequence of at most MaxLines  *)
(* lines drawn from Lines.  The rows follow the two layouts of the daemon: *)
(* V3  CLIENT_LIST,cn,real,virtual,recv,sent,since,since_t                 *)
(*     ROUTING_TABLE,virtual,cn,real,lastref,lastref_t                     *)
(* V1  cn,real,recv,sent,since   and   virtual,cn,real,lastref             *)
(***************************************************************************)
H3Clients == <<"HEADER", "CLIENT_LIST">>
H3Routes == <<"HEADER", "ROUTING_TABLE">>
H1Clients ==
    <<"Common Name", "Real Address", "Bytes Received", "Bytes Sent",
      "Connected Since">>
H1Routes == <<"Virtual Address", "Common Name", "Real Address", "Last Ref">>
GlobalStats == <<"GLOBAL_STATS", "Max bcast/mcast queue length", "0">>

C3Alice ==
    <<"CLIENT_LIST", "alice", "203.0.113.5:53211", "10.8.0.6", "1000", "2000",
      "", "1700000000">>
\* another client reported with the tunnel address of alice
C3Bob ==
    <<"CLIENT_LIST", "bob", "8.8.8.8:1194", "10.8.0.6", "3000", "4000",
      "", "1700000100">>
\* a client that has no tunnel address yet
C3Carol ==
    <<"CLIENT_LIST", "carol", "192.168.1.7:1194", "", "3000", "4000",
      "", "1700000100">>
R3Alice ==
    <<"ROUTING_TABLE", "10.8.0.6", "alice", "203.0.113.5:53211", "",
      "1700000500">>
\* a route whose virtual address no client row reported
R3Orphan ==
    <<"ROUTING_TABLE", "10.8.0.10", "dave", "198.51.100.9:4000", "",
      "1700000600">>

C1Alice ==
    <<"alice", "203.0.113.5:53211", "1000", "2000",
      "Thu Jun 18 04:23:03 2015">>
R1Alice ==
    <<"10.8.0.6", "alice", "203.0.113.5:53211", "Thu Jun 18 04:28:03 2015">>
\* a V1-layout route whose real-address field is the key of a V3 session
R1Mixed ==
    <<"10.8.0.10", "alice", "10.8.0.6", "Thu Jun 18 04:28:03 2015">>

\* the rows of each layout
V3ClientRows == {C3Alice, C3Bob, C3Carol}
V3RouteRows == {R3Alice, R3Orphan}
V1ClientRows == {C1Alice}
V1RouteRows == {R1Alice, R1Mixed}

\* the lines of the replies of Spec: the V3 dialect, and V1 routing tables
Lines ==
    {H3Clients, H3Routes, H1Routes, GlobalStats,
     C3Alice, C3Bob, C3Carol, R3Alice, R3Orphan, R1Mixed}

\* the lines of the replies of SpecV1: the V1 dialect, and a V3 client list
LinesV1 ==
    {H1Clients, H1Routes, C1Alice, R1Alice, H3Clients, C3Alice}

\* rows that are cut short, clients behind IPv4-mapped IPv6 addresses, and
\* a V1 client with a public address
C3Short == <<"CLIENT_LIST", "alice">>
R3Short == <<"ROUTING_TABLE">>
C3Mapped ==
    <<"CLIENT_LIST", "dave", "::ffff:8.8.8.8", "10.8.0.10", "1000", "2000",
      "", "1700000000">>
C3MappedPrivate ==
    <<"CLIENT_LIST", "erin", "::ffff:10.8.0.6", "", "1000", "2000",
      "", "1700000000">>
C1Bob ==
    <<"bob", "8.8.8.8:1194", "3000", "4000", "Thu Jun 18 04:23:03 2015">>

\* the lines of the replies of SpecRows
LinesRows ==
    {H3Clients, H3Routes, H1Clients, C3Alice, C3Bob, C3Mapped,
     C3MappedPrivate, C3Short, R3Alice, R3Short, C1Bob}

\* the lines of a client-mode reply ('OpenVPN STATISTICS')
TitleRow == <<"OpenVPN STATISTICS">>
UpdatedRow == <<"Updated", "Thu Jun 18 04:23:03 2015">>
TunRead1 == <<"TUN/TAP read bytes", "1000">>
TunRead2 == <<"TUN/TAP read bytes", "2000">>
TunWrite == <<"TUN/TAP write bytes", "3000">>
TcpRead == <<"TCP/UDP read bytes", "4000">>
TcpWrite == <<"TCP/UDP write bytes", "1000">>
AuthRead0 == <<"Auth read bytes", "0">>
AuthRead1 == <<"Auth read bytes", "1000">>

\* the lines of the replies of SpecClient
LinesClient ==
    {TitleRow, UpdatedRow, TunRead1, TunRead2, TunWrite, TcpRead, TcpWrite,
     AuthRead0, AuthRead1}

\* the lines of the replies of SpecHeaders: every line the dispatch of
\* lines 237-259 tells apart, and one row of each V3 section
H3Other == <<"HEADER", "GLOBAL_STATS">>
HeaderOnly == <<"HEADER">>
RoutingTitle == <<"ROUTING TABLE">>
ClientNote == <<">CLIENT:ESTABLISHED", "0">>
LinesHeaders ==
    {H3Clients, H3Routes, H3Other, HeaderOnly, H1Clients, RoutingTitle,
     H1Routes, UpdatedRow, ClientNote, C3Alice, R3Alice}

RECURSIVE SeqsUpTo(_, _)
SeqsUpTo(S, n) ==
    IF n = 0 THEN {<< >>}
    ELSE LET shorter == SeqsUpTo(S, n - 1)
         IN shorter \cup {Append(q, x) : q \in {r \in shorter : Len(r) = n - 1},
                                         x \in S}

Replies == SeqsUpTo(Lines, MaxLines)
RepliesV1 == SeqsUpTo(LinesV1, MaxLines)
RepliesRows == SeqsUpTo(LinesRows, MaxLines)
RepliesClient == SeqsUpTo(LinesClient, MaxLines)
RepliesHeaders == SeqsUpTo(LinesHeaders, MaxLines)

(***************************************************************************)
(* parse_status as a state machine.                                        *)
(***************************************************************************)
\* lines 218-222, before GeoIP.open
InitLocals ==
    /\ i = 0
    /\ err = ""
    /\ client_section = FALSE
    /\ routes_section = FALSE
    /\ status_version = 1
    /\ sessions = << >>
    /\ client_session = << >>
    /\ remote_ip_address = Unbound
    /\ nuuid = 0
    /\ lookups = << >>

\* the components that a specification does not run
IdleStatus ==
    /\ data = << >>
    /\ pc = "idle"
    /\ InitLocals
IdleSend ==
    /\ command = ""
    /\ wire = << >>
    /\ eof = FALSE
    /\ sc_data = << >>
    /\ sc_pc = "idle"
    /\ buffers = << >>
IdleStrip ==
    /\ raw = << >>
    /\ cleaned = << >>
    /\ passes = << >>
IdleRun ==
    /\ vpns = << >>
    /\ daemons = << >>
    /\ cur = 0
    /\ run_pc = "idle"
    /\ run_err = ""
    /\ step = 0
    /\ self_s = None
    /\ log = << >>
IdleFn ==
    /\ fn = ""
    /\ arg = << >>
    /\ ret = None
    /\ fn_err = ""
    /\ fn_pc = "idle"
IdleRest == IdleRun /\ IdleFn

Init ==
    /\ data \in Replies /\ pc = "start" /\ InitLocals
    /\ IdleSend /\ IdleStrip /\ IdleRest
InitV1 ==
    /\ data \in RepliesV1 /\ pc = "start" /\ InitLocals
    /\ IdleSend /\ IdleStrip /\ IdleRest

InitRows ==
    /\ data \in RepliesRows /\ pc = "start" /\ InitLocals
    /\ IdleSend /\ IdleStrip /\ IdleRest

InitClient ==
    /\ data \in RepliesClient /\ pc = "start" /\ InitLocals
    /\ IdleSend /\ IdleStrip /\ IdleRest

InitHeaders ==
    /\ data \in RepliesHeaders /\ pc = "start" /\ InitLocals
    /\ IdleSend /\ IdleStrip /\ IdleRest

\* line 223: GeoIP.open either returns the handle or raises
parse_status_open ==
    /\ pc = "start"
    /\ \E opened \in BOOLEAN :
          /\ pc' = IF opened THEN "loop" ELSE "raised"
          /\ err' = IF opened THEN "" ELSE "GeoIP.error"
    /\ UNCHANGED <<data, i, client_section, routes_section, status_version,
                   sessions, client_session, remote_ip_address, nuuid,
                   lookups, sendVars, stripVars, restVars>>

\* the parser's locals before an iteration
Locals ==
    [cs |-> client_section, rs |-> routes_section, sv |-> status_version,
     sessions |-> sessions, client_session |-> client_session,
     ria |-> remote_ip_address, nuuid |-> nuuid, lookups |-> lookups,
     out |-> "continue", err |-> ""]

\* lines 225-340: the for loop takes the next line
parse_status_line ==
    /\ pc = "loop"
    /\ i < Len(data)
    /\ \E gir \in GeoOutcomes :
          LET st == ProcessLine(Locals, data[i + 1], gir) IN
          /\ i' = i + 1
          /\ pc' = CASE st.out = "raise" -> "raised"
                     [] st.out = "break" -> "returned"
                     [] OTHER -> "loop"
          /\ err' = st.err
          /\ client_section' = st.cs
          /\ routes_section' = st.rs
          /\ status_version' = st.sv
          /\ sessions' = st.sessions
          /\ client_session' = st.client_session
          /\ remote_ip_address' = st.ria
          /\ nuuid' = st.nuuid
          /\ lookups' = st.lookups
    /\ UNCHANGED <<data, sendVars, stripVars, restVars>>

\* line 349: the loop ran out of lines
parse_status_return ==
    /\ pc = "loop"
    /\ i = Len(data)
    /\ pc' = "returned"
    /\ UNCHANGED <<data, i, err, client_section, routes_section,
                   status_version, sessions, client_session,
                   remote_ip_address, nuuid, lookups, sendVars, stripVars,
                   restVars>>

Next == parse_status_open \/ parse_status_line \/ parse_status_return

Spec == Init /\ [][Next]_vars
SpecV1 == InitV1 /\ [][Next]_vars
SpecRows == InitRows /\ [][Next]_vars
SpecClient == InitClient /\ [][Next]_vars
SpecHeaders == InitHeaders /\ [][Next]_vars

(***************************************************************************)
(* send_command, lines 161-174.  A string is a sequence of characters.     *)
(***************************************************************************)
CR == "CR"
LF == "LF"

\* "\nEND\r\n", line 170
Terminator == <<LF, "E", "N", "D", CR, LF>>

\* the length asked of recv, line 165
RecvSize == 1024

RECURSIVE Concat(_)
Concat(ss) == IF ss = << >> THEN << >> ELSE Head(ss) \o Concat(Tail(ss))

EndsWith(s, t) ==
    Len(s) >= Len(t) /\ SubSeq(s, Len(s) - Len(t) + 1, Len(s)) = t

\* the position of the first LF of s at or after p, 0 if there is none
RECURSIVE FirstLF(_, _)
FirstLF(s, p) ==
    IF p > Len(s) THEN 0 ELSE IF s[p] = LF THEN p ELSE FirstLF(s, p + 1)

\* The match of '>INFO(.)*\r\n' that starts at p: the position of its last
\* character, 0 if there is no match.  '.' matches anything but LF, so the
\* match runs to the first LF after '>INFO' and needs a CR right before it.
MatchEnd(s, p) ==
    IF p + 4 <= Len(s) /\ SubSeq(s, p, p + 4) = <<">", "I", "N", "F", "O">>
    THEN LET q == FirstLF(s, p + 5) IN
         IF q > p + 5 /\ s[q - 1] = CR THEN q ELSE 0
    ELSE 0

\* re.sub('>INFO(.)*\r\n', '', s), line 166: the non-overlapping matches
\* found scanning from the left are removed
RECURSIVE SubFrom(_, _)
SubFrom(s, p) ==
    IF p > Len(s) THEN << >>
    ELSE IF MatchEnd(s, p) # 0 THEN SubFrom(s, MatchEnd(s, p) + 1)
    ELSE <<s[p]>> \o SubFrom(s, p + 1)

StripInfo(s) == SubFrom(s, 1)

\* Complete with the test of line 168 applied to every command
Complete_AnyData(cmd, d) ==
    IF d # << >> THEN TRUE ELSE EndsWith(d, Terminator)

\* lines 168-171: the loop is left
Complete(cmd, d) ==
    IF cmd = "load-stats" /\ d # << >> THEN TRUE ELSE EndsWith(d, Terminator)

\* the commands of collect_data, lines 125-131
Commands == {"version", "state", "load-stats", "status 3"}

\* what a daemon stream is made of
DataLine == <<"x", CR, LF>>
InfoLine == <<">", "I", "N", "F", "O", ":", "x", CR, LF>>
EndLine == <<"E", "N", "D", CR, LF>>
Frags == {DataLine, InfoLine, EndLine}
Streams == {Concat(fs) : fs \in SeqsUpTo(Frags, MaxFrags)}

InitSend ==
    /\ command \in Commands
    /\ wire \in Streams
    /\ eof \in BOOLEAN
    /\ sc_data = << >>
    /\ sc_pc = "send"
    /\ buffers = << >>
    /\ IdleStatus
    /\ IdleStrip
    /\ IdleRest

\* lines 162-163
send_command_send ==
    /\ sc_pc = "send"
    /\ sc_pc' = "recv"
    /\ sc_data' = << >>
    /\ UNCHANGED <<command, wire, eof, buffers, statusVars, stripVars,
                   restVars>>

\* lines 165-171: recv returns between 1 and RecvSize of the characters on
\* the wire; the chunk is stripped, appended, and the loop is left or not
send_command_recv ==
    /\ sc_pc = "recv"
    /\ wire # << >>
    /\ \E n \in 1..Len(wire) :
          /\ n <= RecvSize
          /\ LET socket_data == StripInfo(SubSeq(wire, 1, n))
                 d == sc_data \o socket_data
             IN /\ sc_data' = d
                /\ sc_pc' = IF Complete(command, d) THEN "returned" ELSE "recv"
          /\ wire' = SubSeq(wire, n + 1, Len(wire))
    /\ UNCHANGED <<command, eof, buffers, statusVars, stripVars, restVars>>

\* lines 165-171 on a closed connection: recv returns '', nothing is
\* appended, and the loop goes round again
send_command_recv_eof ==
    /\ sc_pc = "recv"
    /\ wire = << >>
    /\ eof
    /\ sc_data' = sc_data \o StripInfo(<< >>)
    /\ sc_pc' = IF Complete(command, sc_data') THEN "returned" ELSE "recv"
    /\ UNCHANGED <<command, wire, eof, buffers, statusVars, stripVars,
                   restVars>>

\* line 165 on a silent connection: recv raises socket.timeout after the
\* 3 seconds of line 149
send_command_timeout ==
    /\ sc_pc = "recv"
    /\ wire = << >>
    /\ ~eof
    /\ sc_pc' = "raised"
    /\ UNCHANGED <<command, wire, eof, sc_data, buffers, statusVars,
                   stripVars, restVars>>

NextSend ==
    \/ send_command_send
    \/ send_command_recv
    \/ send_command_recv_eof
    \/ send_command_timeout

SpecSend == InitSend /\ [][NextSend]_vars

(***************************************************************************)
(* The substitution of line 166 as a function of its input.                *)
(***************************************************************************)
Pieces ==
    {<<">", "I", "N", "F", "O">>, <<">", "I", "N">>, <<"F", "O">>,
     <<CR, LF>>, <<"x">>}
StripInputs == {Concat(ps) : ps \in SeqsUpTo(Pieces, MaxPieces)}

InitStrip ==
    /\ raw \in StripInputs
    /\ cleaned = raw
    /\ passes = << >>
    /\ IdleStatus
    /\ IdleSend
    /\ IdleRest

\* one more pass of the substitution over the result so far
strip_pass ==
    /\ Len(passes) < 2
    /\ cleaned' = StripInfo(cleaned)
    /\ passes' = Append(passes, cleaned')
    /\ UNCHANGED <<raw, statusVars, sendVars, restVars>>

NextStrip == strip_pass

SpecStrip == InitStrip /\ [][NextStrip]_vars

(***************************************************************************)
(* parse_version, parse_state and parse_stats (lines 176-214, 351-355).    *)
(* A parser's result is a record: out is "return" (val is the value) or    *)
(* "raise" (err is the uncaught exception).                                *)
(***************************************************************************)
Return(v) == [out |-> "return", val |-> v, err |-> ""]
Raised(e) == [out |-> "raise", val |-> None, err |-> e]

\* line.startswith('OpenVPN') and line.replace('OpenVPN Version: ', '') for
\* the lines that start with 'OpenVPN'; no other line of the model does
VersionTable ==
    ("OpenVPN Version: OpenVPN 2.3.10 x86_64-pc-linux-gnu"
        :> "OpenVPN 2.3.10 x86_64-pc-linux-gnu")
    @@ ("OpenVPN Management Interface" :> "OpenVPN Management Interface")
StartsWithOpenVPN(x) == x \in DOMAIN VersionTable

\* lines 353-355: a reply is a sequence of lines, a line the sequence of
\* its comma-separated fields; the lines of a version reply hold no comma
parse_version(lines) ==
    LET hits == {n \in 1..Len(lines) : StartsWithOpenVPN(P(lines[n], 0))}
    IN  IF hits = {} THEN Return(None)
        ELSE LET n == CHOOSE n \in hits : \A m \in hits : n <= m
             IN Return(VersionTable[P(lines[n], 0)])

StartsWithINFO(x) ==
    x \in {">INFO:OpenVPN Management Interface Version 1 -- type 'help'"}
StartsWithEND(x) == x \in {"END"}

\* lines 188-199: the data line of a state reply; the right-hand sides are
\* evaluated in the order of the source
StateLine(parts) ==
    LET e == IF ~IsDate(P(parts, 0), TRUE) THEN "ValueError"
             ELSE IF ~HasIdx(parts, 1) THEN "IndexError"
             ELSE IF ~HasIdx(parts, 2) THEN "IndexError"
             ELSE IF ~HasIdx(parts, 3) THEN "IndexError"
             ELSE IF P(parts, 3) # "" /\ ~IsAddr(P(parts, 3))
             THEN "ValueError"
             ELSE IF ~HasIdx(parts, 4) THEN "IndexError"
             ELSE IF P(parts, 4) # "" /\ ~IsAddr(P(parts, 4))
             THEN "ValueError"
             ELSE ""
    IN  IF e # "" THEN Raised(e)
        ELSE Return(
            [up_since |-> get_date(P(parts, 0), TRUE),
             connected |-> P(parts, 1),
             success |-> P(parts, 2),
             local_ip |-> IF P(parts, 3) # "" THEN ip_address(P(parts, 3))
                          ELSE "",
             remote_ip |-> IF P(parts, 4) # "" THEN ip_address(P(parts, 4))
                           ELSE "",
             mode |-> IF P(parts, 4) # "" THEN "Client" ELSE "Server"])

\* lines 178-201: every data line overwrites all six fields, so state is
\* the record of the last data line, or {} when there was none
RECURSIVE parse_state_loop(_, _)
parse_state_loop(state, lines) ==
    IF lines = << >> THEN Return(state)
    ELSE LET parts == Head(lines)
             p0 == P(parts, 0)
         IN IF StartsWithINFO(p0) \/ StartsWithEND(p0) \/ StartsWithCLIENT(p0)
            THEN parse_state_loop(state, Tail(lines))
            ELSE LET r == StateLine(parts)
                 IN IF r.out = "raise" THEN r
                    ELSE parse_state_loop(r.val, Tail(lines))

parse_state(lines) == parse_state_loop(<< >>, lines)

(***************************************************************************)
(* parse_stats works on the text of the reply.  A text is a sequence of    *)
(* characters in which the keywords of the reply ('SUCCESS: ',             *)
(* 'nclients=', 'bytesin=', 'bytesout=') are single elements.              *)
(***************************************************************************)
DigitChars == <<"0", "1", "2", "3", "4", "5", "6", "7", "8", "9">>
IsDigit(c) == \E d \in 1..Len(DigitChars) : DigitChars[d] = c
DigitVal(c) == (CHOOSE d \in 1..Len(DigitChars) : DigitChars[d] = c) - 1

\* str(n) for n >= 0
RECURSIVE Fmt(_)
Fmt(n) ==
    IF n < Len(DigitChars) THEN <<DigitChars[n + 1]>>
    ELSE Fmt(n \div Len(DigitChars))
         \o <<DigitChars[(n % Len(DigitChars)) + 1]>>

\* str.strip() as int() applies it
Whitespace == {" ", CR, LF}
RECURSIVE LStrip(_)
LStrip(str) ==
    IF str # << >> /\ Head(str) \in Whitespace THEN LStrip(Tail(str))
    ELSE str
RECURSIVE RStrip(_)
RStrip(str) ==
    IF str # << >> /\ str[Len(str)] \in Whitespace
    THEN RStrip(SubSeq(str, 1, Len(str) - 1))
    ELSE str

\* the digits of the literal int() reads: the text without surrounding
\* whitespace and without one leading sign
IntBody(str) ==
    LET t == RStrip(LStrip(str))
    IN IF t # << >> /\ Head(t) \in {"-", "+"} THEN Tail(t) ELSE t
IntSign(str) ==
    LET t == RStrip(LStrip(str))
    IN IF t # << >> /\ Head(t) = "-" THEN -1 ELSE 1
IsIntChars(str) ==
    /\ IntBody(str) # << >>
    /\ \A n \in 1..Len(IntBody(str)) : IsDigit(IntBody(str)[n])
RECURSIVE DigitsVal(_)
DigitsVal(ds) ==
    IF ds = << >> THEN 0
    ELSE DigitsVal(SubSeq(ds, 1, Len(ds) - 1)) * Len(DigitChars)
         + DigitVal(ds[Len(ds)])

\* int() that answers 0 for a text that is no integer
IntCharsErr_Silent(str) == ""

\* the exception int(str) raises, "" if none
IntCharsErr(str) == IF IsIntChars(str) THEN "" ELSE "ValueError"

\* int(str); the value is read only where IntCharsErr(str) = ""
IntChars(str) ==
    IF IsIntChars(str) THEN IntSign(str) * DigitsVal(IntBody(str)) ELSE 0

\* re.sub(keyword, '', str)
Remove(str, keyword) == SelectSeq(str, LAMBDA c : c # keyword)

\* str.split(sep)
RECURSIVE Split(_, _)
Split(str, sep) ==
    IF \A n \in 1..Len(str) : str[n] # sep THEN <<str>>
    ELSE LET n == CHOOSE n \in 1..Len(str) :
                      /\ str[n] = sep
                      /\ \A m \in 1..(n - 1) : str[m] # sep
         IN <<SubSeq(str, 1, n - 1)>>
            \o Split(SubSeq(str, n + 1, Len(str)), sep)

\* str.replace('\r\n', '')
RECURSIVE RemoveCRLF(_)
RemoveCRLF(str) ==
    IF Len(str) < 2 THEN str
    ELSE IF str[1] = CR /\ str[2] = LF
         THEN RemoveCRLF(SubSeq(str, 3, Len(str)))
         ELSE <<Head(str)>> \o RemoveCRLF(Tail(str))

\* lines 205-214
parse_stats(text) ==
    LET line == Remove(text, "SUCCESS: ")
        parts == Split(line, ",")
        t0 == Remove(P(parts, 0), "nclients=")
        t1 == Remove(P(parts, 1), "bytesin=")
        t2 == RemoveCRLF(Remove(P(parts, 2), "bytesout="))
    IN  IF IntCharsErr(t0) # "" THEN Raised(IntCharsErr(t0))
        ELSE IF ~HasIdx(parts, 1) THEN Raised("IndexError")
        ELSE IF IntCharsErr(t1) # "" THEN Raised(IntCharsErr(t1))
        ELSE IF ~HasIdx(parts, 2) THEN Raised("IndexError")
        ELSE IF IntCharsErr(t2) # "" THEN Raised(IntCharsErr(t2))
        ELSE Return([nclients |-> IntChars(t0),
                     bytesin |-> IntChars(t1),
                     bytesout |-> IntChars(t2)])

(***************************************************************************)
(* The replies the three parsers are run on.                               *)
(***************************************************************************)
VersionLine == <<"OpenVPN Version: OpenVPN 2.3.10 x86_64-pc-linux-gnu">>
ManagementLine == <<"Management Version: 1">>
EndRow == <<"END">>
InfoRow == <<">INFO:OpenVPN Management Interface Version 1 -- type 'help'">>
VersionLines == {VersionLine, ManagementLine, EndRow}

StateServer == <<"1700000000", "CONNECTED", "SUCCESS", "10.8.0.6", "">>
StateClient == <<"1700000100", "CONNECTED", "SUCCESS", "10.8.0.6", "8.8.8.8">>
StateShort == <<"1700000000", "CONNECTED", "SUCCESS">>
ErrorRow == <<"ERROR: unknown command">>
StateLines == {StateServer, StateClient, StateShort, ErrorRow, EndRow, InfoRow}

\* the text of a load-stats reply whose three fields are fa, fb and fc
StatsReply(fa, fb, fc) ==
    <<"SUCCESS: ", "nclients=">> \o fa \o <<",", "bytesin=">> \o fb
    \o <<",", "bytesout=">> \o fc \o <<CR, LF>>
Nums == 0..MaxNum
NotIntegers == {<< >>, <<"x">>, <<"1", "x">>, <<"1", ".", "5">>}
StatsFields == {Fmt(n) : n \in Nums} \cup NotIntegers
StatsReplies ==
    {StatsReply(fa, fb, fc) : fa, fb, fc \in StatsFields}
    \cup {<<"SUCCESS: ", "nclients=">> \o Fmt(MaxNum) \o <<CR, LF>>,
          <<"SUCCESS: ", "nclients=">> \o Fmt(MaxNum) \o <<",", "bytesin=">>
              \o Fmt(MaxNum) \o <<CR, LF>>,
          <<"ERROR: unknown command", CR, LF>>}

\* send_command never returns '' (lines 170-173)
NonEmpty(S) == S \ {<< >>}

InitFn ==
    /\ fn \in {"parse_version", "parse_state", "parse_stats"}
    /\ arg \in CASE fn = "parse_version" ->
                        NonEmpty(SeqsUpTo(VersionLines, MaxLines))
                 [] fn = "parse_state" ->
                        NonEmpty(SeqsUpTo(StateLines, MaxLines))
                 [] fn = "parse_stats" -> StatsReplies
    /\ ret = None
    /\ fn_err = ""
    /\ fn_pc = "call"
    /\ IdleStatus
    /\ IdleSend
    /\ IdleStrip
    /\ IdleRun

\* the call of a parser, from entry to return or raise
Called(r) ==
    /\ fn_pc = "call"
    /\ fn_pc' = IF r.out = "raise" THEN "raised" ELSE "returned"
    /\ ret' = r.val
    /\ fn_err' = r.err
    /\ UNCHANGED <<fn, arg, statusVars, sendVars, stripVars, runVars>>

parse_version_call == fn = "parse_version" /\ Called(parse_version(arg))
parse_state_call == fn = "parse_state" /\ Called(parse_state(arg))
parse_stats_call == fn = "parse_stats" /\ Called(parse_stats(arg))

NextFn ==
    \/ parse_version_call
    \/ parse_state_call
    \/ parse_stats_call

SpecFn == InitFn /\ [][NextFn]_vars

(***************************************************************************)
(* parse_status as a function of its reply, for the callers that need the  *)
(* value only: the loop of lines 225-340 over the locals of lines 218-222. *)
(***************************************************************************)
StartLocals ==
    [cs |-> FALSE, rs |-> FALSE, sv |-> 1, sessions |-> << >>,
     client_session |-> << >>, ria |-> Unbound, nuuid |-> 0,
     lookups |-> << >>, out |-> "continue", err |-> ""]

\* lines 225-340: the loop goes on with the lines left unless the line just
\* read ended it (break, line 236, or an exception)
RECURSIVE parse_status_loop(_, _, _)
parse_status_rest(next, lines, gir) ==
    IF next.out \in {"break", "raise"} THEN next
    ELSE parse_status_loop(next, lines, gir)
parse_status_loop(st, lines, gir) ==
    IF lines = << >> THEN st
    ELSE parse_status_rest(
             ProcessLine([st EXCEPT !.out = "continue"], Head(lines), gir),
             Tail(lines), gir)

\* line 349, or the exception that left the function
parse_status_result(st) ==
    IF st.out = "raise" THEN Raised(st.err) ELSE Return(st.sessions)

\* the database opens and every lookup answers gir
parse_status(lines, gir) ==
    parse_status_result(parse_status_loop(StartLocals, lines, gir))

(***************************************************************************)
(* OpenvpnMonitor.__init__, lines 116-159: one pass over the endpoints.    *)
(* self.s is "False", "socket:open" or "socket:closed"; log holds the      *)
(* connections made, the commands sent and the connections closed.         *)
(***************************************************************************)
\* collect_data, lines 125-132: the commands and the keys they fill
Exchange == <<"version", "state", "load-stats", "status 3">>
SnapshotKey == <<"version", "state", "stats", "sessions">>

\* a daemon refuses the connection, answers every command well, stays
\* silent on the at-th command, or answers it with a malformed reply
Daemons ==
    [kind : {"refuse", "healthy"}, at : {0}]
    \cup [kind : {"silent", "malformed"}, at : 1..Len(Exchange)]

HealthyReply ==
    << <<VersionLine, ManagementLine, EndRow>>,
       <<StateServer, EndRow>>,
       StatsReply(Fmt(1), Fmt(MaxNum), Fmt(MaxNum)),
       <<H3Clients, C3Alice, H3Routes, R3Alice, GlobalStats, EndRow>> >>
MalformedReply ==
    << <<ManagementLine, EndRow>>,
       <<StateShort, EndRow>>,
       <<"ERROR: unknown command", CR, LF>>,
       <<H3Clients, C3Short, GlobalStats, EndRow>> >>

\* what the n-th command of collect_data comes back with from daemon d
DaemonReply(d, n) ==
    IF d.kind = "malformed" /\ d.at = n THEN MalformedReply[n]
    ELSE HealthyReply[n]

\* lines 125-132: send_command and the parser of the n-th exchange; a
\* silent daemon makes recv raise socket.timeout (lines 149, 165)
ExchangeResult(d, n) ==
    IF d.kind = "silent" /\ d.at = n THEN Raised("socket.timeout")
    ELSE CASE n = 1 -> parse_version(DaemonReply(d, n))
           [] n = 2 -> parse_state(DaemonReply(d, n))
           [] n = 3 -> parse_stats(DaemonReply(d, n))
           [] OTHER -> parse_status(DaemonReply(d, n), "record")

\* _socket_connect without the except clause of lines 153-155
SocketConnect_Uncaught(d) ==
    IF d.kind = "refuse" THEN Raised("socket.error") ELSE Return("socket:open")

\* lines 150-155: self.s after the connection attempt
SocketConnect(d) ==
    IF d.kind = "refuse" THEN Return("False") ELSE Return("socket:open")

\* the truth value of self.s, line 119
Truthy(x) == x # "False"

Event(e, n, c) == [ev |-> e, vpn |-> n, cmd |-> c]

Endpoint == ("host" :> "127.0.0.1") @@ ("port" :> "1194")

InitRun ==
    /\ \E k \in 0..MaxVpns :
          /\ vpns = [n \in 1..k |-> Endpoint]
          /\ daemons \in [1..k -> Daemons]
    /\ cur = 1
    /\ run_pc = "loop"
    /\ run_err = ""
    /\ step = 0
    /\ self_s = None
    /\ log = << >>
    /\ IdleStatus
    /\ IdleSend
    /\ IdleStrip
    /\ IdleFn

\* lines 117-119 and 146-155: the next endpoint is connected to
run_connect ==
    /\ run_pc = "loop"
    /\ cur <= Len(vpns)
    /\ LET r == IF ~IsInt(vpns[cur]["port"]) THEN Raised("ValueError")
                ELSE SocketConnect(daemons[cur])
       IN IF r.out = "raise"
          THEN /\ run_pc' = "raised"
               /\ run_err' = r.err
               /\ UNCHANGED <<vpns, cur, self_s, log>>
          ELSE /\ self_s' = r.val
               /\ vpns' = [vpns EXCEPT
                     ![cur] = Put(@, "socket_connected", Truthy(r.val))]
               /\ log' = IF Truthy(r.val)
                         THEN Append(log, Event("connect", cur, ""))
                         ELSE log
               /\ run_pc' = IF Truthy(r.val) THEN "collect" ELSE "loop"
               /\ cur' = IF Truthy(r.val) THEN cur ELSE cur + 1
               /\ run_err' = run_err
    /\ step' = 0
    /\ UNCHANGED <<daemons, statusVars, sendVars, stripVars, fnVars>>

\* lines 125-132: r is what send_command and the parser of the n-th command
\* came to; the value is stored, or the exception leaves collect_data and
\* __init__
Exchanged(n, r) ==
    /\ log' = Append(log, Event("send", cur, Exchange[n]))
    /\ IF r.out = "raise"
       THEN /\ run_pc' = "raised"
            /\ run_err' = r.err
            /\ UNCHANGED <<vpns, step>>
       ELSE /\ vpns' = [vpns EXCEPT ![cur] = Put(@, SnapshotKey[n], r.val)]
            /\ step' = n
            /\ run_pc' = IF n = Len(Exchange) THEN "disconnect"
                         ELSE "collect"
            /\ run_err' = run_err

\* lines 125-132: the next command of collect_data
run_exchange ==
    /\ run_pc = "collect"
    /\ step < Len(Exchange)
    /\ Exchanged(step + 1, ExchangeResult(daemons[cur], step + 1))
    /\ UNCHANGED <<daemons, cur, self_s, statusVars, sendVars, stripVars,
                   fnVars>>

\* lines 121 and 157-159: 'quit' is sent and the socket closed
run_disconnect ==
    /\ run_pc = "disconnect"
    /\ log' = log \o <<Event("send", cur, "quit"), Event("close", cur, "")>>
    /\ self_s' = "socket:closed"
    /\ cur' = cur + 1
    /\ run_pc' = "loop"
    /\ UNCHANGED <<vpns, daemons, run_err, step, statusVars, sendVars,
                   stripVars, fnVars>>

\* line 117: no endpoint is left and __init__ returns
run_return ==
    /\ run_pc = "loop"
    /\ cur > Len(vpns)
    /\ run_pc' = "done"
    /\ UNCHANGED <<vpns, daemons, cur, run_err, step, self_s, log,
                   statusVars, sendVars, stripVars, fnVars>>

NextRun == run_connect \/ run_exchange \/ run_disconnect \/ run_return

SpecRun == InitRun /\ [][NextRun]_vars

(***************************************************************************)
(* collect_data, lines 124-132: the four calls of send_command on one      *)
(* connection.  What recv has not returned stays on the wire from one call *)
(* to the next.                                                            *)
(***************************************************************************)
\* what the daemon sends in reply to each command: a line of text and, but
\* for 'load-stats', the END line
VersionReply == <<"v", CR, LF>> \o EndLine
StateReply == <<"s", CR, LF>> \o EndLine
LoadStatsReply == <<"n", "=", "1", CR, LF>>
StatusReply == <<"c", CR, LF>> \o EndLine
ReplyTo ==
    ("version" :> VersionReply) @@ ("state" :> StateReply)
    @@ ("load-stats" :> LoadStatsReply) @@ ("status 3" :> StatusReply)

\* line 147-150: connected, nothing sent yet; the daemon may close the
\* connection once what it sent has been read
InitCollect ==
    /\ command = ""
    /\ wire = << >>
    /\ eof \in BOOLEAN
    /\ sc_data = << >>
    /\ sc_pc = "call"
    /\ buffers = << >>
    /\ IdleStatus
    /\ IdleStrip
    /\ IdleRest

\* lines 125, 127, 129, 131: the next call of send_command; the daemon
\* answers the command in full, or has stopped answering
collect_data_call ==
    /\ sc_pc = "call"
    /\ Len(buffers) < Len(Exchange)
    /\ command' = Exchange[Len(buffers) + 1]
    /\ \E answered \in BOOLEAN :
          wire' = IF answered THEN wire \o ReplyTo[command'] ELSE wire
    /\ sc_pc' = "send"
    /\ UNCHANGED <<eof, sc_data, buffers, statusVars, stripVars, restVars>>

\* lines 125-131: send_command returned; its buffer goes to the parser
collect_data_store ==
    /\ sc_pc = "returned"
    /\ buffers' = Append(buffers, sc_data)
    /\ sc_pc' = IF Len(buffers') = Len(Exchange) THEN "done" ELSE "call"
    /\ UNCHANGED <<command, wire, eof, sc_data, statusVars, stripVars,
                   restVars>>

NextCollect ==
    \/ collect_data_call
    \/ send_command_send
    \/ send_command_recv
    \/ send_command_recv_eof
    \/ send_command_timeout
    \/ collect_data_store

SpecCollect == InitCollect /\ [][NextCollect]_vars

(***************************************************************************)
(* Vocabulary of the properties.                                           *)
(***************************************************************************)
Finished == pc \in {"returned", "raised"}

\* the database opened (line 223): what follows is about the parser proper
Opened == err # "GeoIP.error"

\* the for loop takes a line in this step; the line is data[i']
LineStep == pc = "loop" /\ i' = i + 1

\* the line reaches the section dispatch of line 278
IsDataRow(parts) ==
    /\ ~StartsWithGLOBAL(P(parts, 0))
    /\ ~StartsWithCLIENT(P(parts, 0))
    /\ P(parts, 0) \notin {"HEADER", "Updated", "Common Name",
                            "ROUTING TABLE", "Virtual Address"}
    /\ P(parts, 0) \notin DOMAIN CounterKey

InClients == client_section /\ ~routes_section
InRoutes == routes_section /\ ~client_section

\* a valid V1 reply: the client header, client rows, and then possibly the
\* routing header and one route per reported client
ValidV1Reply(d) ==
    /\ Len(d) >= 1
    /\ d[1] = H1Clients
    /\ \E k \in 1..Len(d) :
          /\ \A j \in 2..k : d[j] \in V1ClientRows
          /\ k < Len(d) =>
                /\ d[k + 1] = H1Routes
                /\ \A j \in (k + 2)..Len(d) :
                      /\ d[j] \in V1RouteRows
                      /\ \E c \in 2..k : d[c][2] = d[j][3]

\* C1: on a valid V1 reply parse_status returns, and every client row
\* [username, remoteIP:port, recv, sent, since] is stored as one record
\* under the key equal to its raw remoteIP:port field.
C1_V1RowsKeyedByRealAddress ==
    (ValidV1Reply(data) /\ Finished /\ Opened) =>
        /\ pc = "returned"
        /\ \A j \in 2..Len(data) :
              data[j] \in V1ClientRows =>
                  /\ data[j][2] \in DOMAIN sessions
                  /\ sessions[data[j][2]].username = data[j][1]
        /\ Cardinality(DOMAIN sessions)
              = Cardinality({data[j][2] : j \in {n \in 2..Len(data) :
                                                  data[n] \in V1ClientRows}})

\* C2: under dialect V3 a client row with a non-empty local tunnel IP is
\* stored under that IP; a row with an empty one is stored under a key that
\* was not in the map, and no generated key is ever shared by two rows or
\* with an address (as many generated keys as rows without tunnel IP).
C2_StoredUnderKey ==
    (LineStep /\ InClients /\ status_version = 3
              /\ data[i'] \in V3ClientRows) =>
        /\ pc' = "loop"
        /\ LET row == data[i'] IN
           IF row[4] # ""
           THEN /\ row[4] \in DOMAIN sessions'
                /\ sessions'[row[4]].username = row[2]
                /\ DOMAIN sessions' = DOMAIN sessions \cup {row[4]}
           ELSE \E k \in DOMAIN sessions' \ DOMAIN sessions :
                   /\ sessions'[k].username = row[2]
                   /\ ~IsAddr(k)
                   /\ DOMAIN sessions' = DOMAIN sessions \cup {k}

C2_GeneratedKeysDistinct ==
    Cardinality({k \in DOMAIN sessions : ~IsAddr(k) /\ k # "Client"}) = nuuid

C2_V3KeyedByTunnelIpOrFreshToken ==
    [][C2_StoredUnderKey]_vars /\ [](pc # "raised" => C2_GeneratedKeysDistinct)

C2_Witness ==
    /\ pc = "returned"
    /\ nuuid = 2
    /\ {"10.8.0.6", uuid4(0), uuid4(1)} \subseteq DOMAIN sessions
    /\ sessions[uuid4(1)].username = "carol"

\* the client a row describes (its common-name field)
RowUser(parts) ==
    IF P(parts, 0) = "CLIENT_LIST" THEN P(parts, 1) ELSE P(parts, 0)

\* C3: a client row of a client that has no record yet adds one record and
\* overwrites none: every record present before the row is still there,
\* unchanged, after it (so that n rows of n clients leave n records).
C3_NoRecordOverwritten ==
    [][(LineStep /\ InClients /\ pc' = "loop"
            /\ \/ status_version = 3 /\ data[i'] \in V3ClientRows
               \/ status_version = 1 /\ data[i'] \in V1ClientRows
            /\ \A k \in DOMAIN sessions :
                  "username" \in DOMAIN sessions[k]
                      => sessions[k].username # RowUser(data[i'])) =>
         /\ Cardinality(DOMAIN sessions') = Cardinality(DOMAIN sessions) + 1
         /\ \A k \in DOMAIN sessions :
               k \in DOMAIN sessions' /\ sessions'[k] = sessions[k]]_vars

\* the key a routing-table row derives (lines 334 and 338)
RouteKey(parts) == IF status_version = 1 THEN F(parts, 2) ELSE F(parts, 1)

\* C4: in both dialects, a routing-table row whose key is not in the
\* sessions map raises nothing, leaves the map unchanged and lets the loop
\* go on.
C4_OrphanRouteIgnored ==
    [][(LineStep /\ InRoutes
            /\ \/ status_version = 1 /\ data[i'] \in V1RouteRows
               \/ status_version = 3 /\ data[i'] \in V3RouteRows
            /\ RouteKey(data[i']) \notin DOMAIN sessions) =>
         (pc' = "loop" /\ sessions' = sessions)]_vars

\* C5: on a valid V1 reply, a routing row [virtual, cn, real, lastref] that
\* follows the client row whose key is its real address leaves that session
\* with local_ip = virtual and last_seen = lastref.
C5_V1RouteUpdatesSession ==
    (ValidV1Reply(data) /\ Finished /\ Opened) =>
        \A c \in 1..Len(data), r \in 1..Len(data) :
            (c < r /\ data[c] \in V1ClientRows /\ data[r] \in V1RouteRows
                   /\ data[r][3] = data[c][2]) =>
                /\ pc = "returned"
                /\ data[c][2] \in DOMAIN sessions
                /\ "local_ip" \in DOMAIN sessions[data[c][2]]
                /\ sessions[data[c][2]].local_ip = ip_address(data[r][1])
                /\ sessions[data[c][2]].last_seen = get_date(data[r][4], FALSE)

\* C6: a row processed in the routes section adds and removes no key, and
\* changes nothing but local_ip and last_seen of the session under the key
\* the row derives.
C6_RoutesFrame ==
    [][(LineStep /\ InRoutes /\ IsDataRow(data[i'])) =>
         /\ DOMAIN sessions' = DOMAIN sessions
         /\ \A k \in DOMAIN sessions :
               IF k # RouteKey(data[i'])
               THEN sessions'[k] = sessions[k]
               ELSE /\ DOMAIN sessions'[k] \subseteq
                          DOMAIN sessions[k] \cup {"local_ip", "last_seen"}
                    /\ \A f \in DOMAIN sessions[k] \ {"local_ip", "last_seen"} :
                          /\ f \in DOMAIN sessions'[k]
                          /\ sessions'[k][f] = sessions[k][f]]_vars

\* a V1-layout route has updated the session a V3 client row created
C6_Witness ==
    /\ pc = "returned"
    /\ status_version = 1
    /\ "10.8.0.6" \in DOMAIN sessions
    /\ sessions["10.8.0.6"].local_ip = "10.8.0.10"
    /\ sessions["10.8.0.6"].last_seen = 1434601683
    /\ sessions["10.8.0.6"].username = "alice"

\* C7: under dialect V3 a session starts with last_seen = connected_since;
\* a routing row for its key sets last_seen to the row's epoch and keeps
\* connected_since, bytes_recv and bytes_sent; no other V3 line changes
\* last_seen.
C7_Step ==
    (LineStep /\ status_version' = 3 /\ pc' = "loop") =>
        LET row == data[i']
            isClient == InClients /\ IsDataRow(row)
            isRoute == InRoutes /\ IsDataRow(row)
        IN
        /\ (isClient /\ row \in V3ClientRows) =>
              \A k \in DOMAIN sessions' :
                 (k \notin DOMAIN sessions \/ sessions'[k] # sessions[k]) =>
                    /\ sessions'[k].connected_since = get_date(row[8], TRUE)
                    /\ sessions'[k].last_seen = sessions'[k].connected_since
        /\ (isRoute /\ row \in V3RouteRows /\ row[2] \in DOMAIN sessions) =>
              /\ sessions'[row[2]].last_seen = get_date(row[6], TRUE)
              /\ sessions'[row[2]].connected_since
                    = sessions[row[2]].connected_since
              /\ sessions'[row[2]].bytes_recv = sessions[row[2]].bytes_recv
              /\ sessions'[row[2]].bytes_sent = sessions[row[2]].bytes_sent
        /\ \A k \in DOMAIN sessions :
              (~isClient /\ ~(isRoute /\ RouteKey(row) = k)) =>
                  /\ k \in DOMAIN sessions'
                  /\ sessions'[k].last_seen = sessions[k].last_seen

C7_LastSeenV3 == [][C7_Step]_vars

\* the spec's example: alice keyed 10.8.0.6, last seen at 1700000500
C7_Witness ==
    /\ pc = "returned"
    /\ DOMAIN sessions = {"10.8.0.6"}
    /\ sessions["10.8.0.6"].bytes_recv = 1000
    /\ sessions["10.8.0.6"].bytes_sent = 2000
    /\ sessions["10.8.0.6"].connected_since = 1700000000
    /\ sessions["10.8.0.6"].last_seen = 1700000500

(***************************************************************************)
(* send_command.                                                           *)
(***************************************************************************)
\* a '>INFO ... CRLF' notification line is in s
HasInfoLine(s) == \E p \in 1..Len(s) : MatchEnd(s, p) # 0

\* C8: send_command returns for 'load-stats' as soon as the buffer is not
\* empty, and for every other command only with a buffer that ends with
\* LF 'END' CR LF; recv is never called on a buffer that is complete.
C8_CompletionPolicy ==
    /\ (sc_pc = "returned" /\ command = "load-stats") => sc_data # << >>
    /\ (sc_pc = "returned" /\ command # "load-stats") =>
            EndsWith(sc_data, Terminator)
    /\ sc_pc = "recv" =>
            /\ command = "load-stats" => sc_data = << >>
            /\ ~EndsWith(sc_data, Terminator)

\* 'version' returned with its terminator while the daemon had sent more
C8_Witness ==
    /\ sc_pc = "returned"
    /\ command = "version"
    /\ sc_data = DataLine \o EndLine
    /\ wire # << >>

\* C9: whatever the chunks, the buffer send_command returns holds no
\* '>INFO' notification line.
C9_NoInfoLineReturned ==
    sc_pc = "returned" => ~HasInfoLine(sc_data)

\* C10: the substitution is idempotent: a second pass changes nothing.
C10_StripIdempotent ==
    Len(passes) = 2 => passes[2] = passes[1]

\* the well-formed load-stats replies, by the numbers the daemon formatted
WellFormedStats ==
    [t \in Nums \X Nums \X Nums |->
        StatsReply(Fmt(t[1]), Fmt(t[2]), Fmt(t[3]))]
\* the load-stats replies with a field that is no integer
NonIntegerStats ==
    {StatsReply(fa, fb, fc) : fa, fb, fc \in StatsFields}
    \ {WellFormedStats[t] : t \in DOMAIN WellFormedStats}

\* the data lines of a state reply (line 184)
StateDataLines(lines) ==
    {n \in 1..Len(lines) :
        /\ ~StartsWithINFO(P(lines[n], 0))
        /\ ~StartsWithEND(P(lines[n], 0))
        /\ ~StartsWithCLIENT(P(lines[n], 0))}

\* C17: parse_version, parse_state and parse_stats fail when the markers
\* they expect are absent (no line beginning 'OpenVPN'; no data line, or a
\* data line with fewer than five fields; no nclients=/bytesin=/bytesout=
\* field), and none of them returns an empty or absent record.
C17_MalformedReplySignalled ==
    /\ (fn = "parse_version" /\ fn_pc # "call") =>
        /\ (\A n \in 1..Len(arg) : ~StartsWithOpenVPN(P(arg[n], 0)))
                => fn_pc = "raised"
        /\ fn_pc = "returned" => ret # None
    /\ (fn = "parse_state" /\ fn_pc # "call") =>
        /\ (\/ StateDataLines(arg) = {}
            \/ \E n \in StateDataLines(arg) : ~HasIdx(arg[n], 4))
                => fn_pc = "raised"
        /\ fn_pc = "returned" => DOMAIN ret # {}
    /\ (fn = "parse_stats" /\ fn_pc # "call") =>
        /\ (\E k \in {"nclients=", "bytesin=", "bytesout="} :
                \A n \in 1..Len(arg) : arg[n] # k)
                => fn_pc = "raised"
        /\ fn_pc = "returned" =>
                DOMAIN ret = {"nclients", "bytesin", "bytesout"}

\* C18: parse_stats returns exactly the three numbers of a well-formed
\* reply 'SUCCESS: nclients=a,bytesin=b,bytesout=c' CR LF, and raises
\* ValueError, returning nothing, when a field is not an integer.
C18_StatsExactOrError ==
    (fn = "parse_stats" /\ fn_pc # "call") =>
        /\ \A t \in DOMAIN WellFormedStats :
              arg = WellFormedStats[t] =>
                  /\ fn_pc = "returned"
                  /\ ret = [nclients |-> t[1], bytesin |-> t[2],
                            bytesout |-> t[3]]
        /\ arg \in NonIntegerStats =>
              /\ fn_pc = "raised"
              /\ fn_err = "ValueError"
              /\ ret = None

\* a reply with one-digit and two-digit counters has been parsed
C18_Witness ==
    /\ fn = "parse_stats"
    /\ fn_pc = "returned"
    /\ arg = StatsReply(Fmt(MaxNum - 1), Fmt(MaxNum), Fmt(0))
    /\ ret.nclients = MaxNum - 1
    /\ ret.bytesin = MaxNum

\* the endpoint's daemon refuses the connection
Refusing(n) == daemons[n].kind = "refuse"
\* _socket_connect has run for the endpoint
Attempted(n) == "socket_connected" \in DOMAIN vpns[n]
\* the keys collect_data has stored for the endpoint
Collected(n) == DOMAIN vpns[n] \cap {SnapshotKey[j] : j \in 1..Len(SnapshotKey)}
RunOver == run_pc \in {"done", "raised"}

\* C11: a refused connection stays with its endpoint: the endpoint gets
\* socket_connected = false and none of version/state/stats/sessions,
\* nothing is sent to it, the run is not ended by it nor stopped before
\* its end, and at the end of the run every endpoint with a healthy daemon
\* is connected and holds all four keys with the values parsed from its
\* replies.
C11_RefusalIsolated ==
    /\ \A n \in 1..Len(vpns) : Refusing(n) =>
          /\ Attempted(n) => vpns[n]["socket_connected"] = FALSE
          /\ Collected(n) = {}
          /\ \A j \in 1..Len(log) : log[j].vpn # n
    /\ run_pc = "raised" =>
          /\ daemons[cur].kind \in {"silent", "malformed"}
          /\ run_err # "socket.error"
    /\ run_pc = "done" =>
          \A n \in 1..Len(vpns) :
              /\ Attempted(n)
              /\ vpns[n]["socket_connected"] = ~Refusing(n)
              /\ daemons[n].kind = "healthy" =>
                    /\ Collected(n) = {"version", "state", "stats", "sessions"}
                    /\ vpns[n]["version"] = parse_version(HealthyReply[1]).val
                    /\ vpns[n]["state"] = parse_state(HealthyReply[2]).val
                    /\ vpns[n]["stats"] = parse_stats(HealthyReply[3]).val
                    /\ DOMAIN vpns[n]["sessions"] = {"10.8.0.6"}
    /\ ~RunOver =>
          \/ run_pc \in {"loop", "disconnect"}
          \/ run_pc = "collect" /\ step < Len(Exchange)

\* a healthy endpoint between two refusing ones has been polled
C11_Witness ==
    /\ run_pc = "done"
    /\ Len(vpns) = MaxVpns
    /\ Refusing(1)
    /\ daemons[2].kind = "healthy"
    /\ Refusing(MaxVpns)
    /\ vpns[1]["socket_connected"] = FALSE
    /\ Collected(2) = {"version", "state", "stats", "sessions"}
    /\ \E j \in 1..Len(log) : log[j] = Event("send", 2, "status 3")

\* what happens on one connection, in the order of lines 118-121
Script ==
    <<Event("connect", 0, "")>>
    \o [n \in 1..Len(Exchange) |-> Event("send", 0, Exchange[n])]
    \o <<Event("send", 0, "quit"), Event("close", 0, "")>>
\* the events of endpoint n, in order
EventsOf(n) == SelectSeq(log, LAMBDA e : e.vpn = n)
\* the connections that are open
OpenSockets ==
    {n \in 1..Len(vpns) :
        /\ \E j \in 1..Len(log) : log[j] = Event("connect", n, "")
        /\ \A j \in 1..Len(log) : log[j] # Event("close", n, "")}
\* endpoints in configuration order, one connection at a time, and on each
\* connection the events of Script in their order
PollOrder ==
    /\ \A j \in 1..(Len(log) - 1) : log[j].vpn <= log[j + 1].vpn
    /\ \A n \in 1..Len(vpns) :
          /\ Len(EventsOf(n)) <= Len(Script)
          /\ \A j \in 1..Len(EventsOf(n)) :
                /\ EventsOf(n)[j].ev = Script[j].ev
                /\ EventsOf(n)[j].cmd = Script[j].cmd
    /\ \A j \in 2..Len(log) :
          log[j].ev = "connect" => log[j - 1].ev = "close"
    /\ Cardinality(OpenSockets) <= 1

\* C12: endpoints are polled in configuration order, one at a time; on a
\* connection the order is connect, 'version', 'state', 'load-stats',
\* 'status 3', 'quit', close; a socket is closed before the next connect;
\* at most one connection is open; and every connection that was opened
\* has been sent 'quit' and closed when the run is over.
C12_PollOrderAndClose ==
    /\ PollOrder
    /\ RunOver =>
          /\ OpenSockets = {}
          /\ \A n \in 1..Len(vpns) :
                EventsOf(n) # << >> => Len(EventsOf(n)) = Len(Script)

\* C13: a read timeout or a malformed reply at a connected endpoint k does
\* not end the run: the run is over only when every endpoint after k has
\* been polled, and it ends by returning.
C13_FailureNotFatal ==
    \A k \in 1..(Len(vpns) - 1) :
        (RunOver /\ daemons[k].kind \in {"silent", "malformed"}) =>
            /\ run_pc = "done"
            /\ \A n \in (k + 1)..Len(vpns) : Attempted(n)

\* C14: a client or routing row that is cut short is skipped: the parse
\* goes on with the next line and no session is added or changed.
C14_Step ==
    (/\ LineStep
     /\ \/ InClients /\ data[i'] = C3Short
        \/ InRoutes /\ data[i'] = R3Short)
    => /\ pc' = "loop"
       /\ sessions' = sessions
C14_ShortRowSkipped == [][C14_Step]_vars

\* a reply made of headers and whole V3 rows only
WholeV3Reply(d) ==
    \A n \in 1..Len(d) :
        d[n] \in {H3Clients, H3Routes, C3Alice, C3Bob, C3Mapped,
                  C3MappedPrivate, R3Alice}

\* C15: geolocation is never fatal: whether the database cannot be opened
\* or a lookup fails, parse_status returns, on a reply without client rows
\* too, and every session it returns has a location, 'Unknown' or
\* 'RFC1918' where no record was found.
C15_GeolocationNeverFatal ==
    (Finished /\ WholeV3Reply(data)) =>
        /\ pc = "returned"
        /\ \A k \in DOMAIN sessions :
              sessions[k]["location"]
                  \in {"Unknown", "RFC1918", GeoRecord.country_code}

\* the remote address of a client row, as the row gives it (V3: field 2,
\* V1: field 1, without the port) and with an IPv4-mapped IPv6 address
\* brought back to IPv4
RowRemote(parts) ==
    LET a == IF P(parts, 0) = "CLIENT_LIST" THEN RemoteV3(P(parts, 2))[1]
             ELSE ColonTable[P(parts, 1)][1]
    IN IF AddrTable[a].ipv4_mapped # None THEN AddrTable[a].ipv4_mapped
       ELSE a

\* C16: a client row with a private remote address causes no lookup and
\* gets location 'RFC1918'; a client row with a public one causes exactly
\* one lookup, of that address; so the lookups of a parse are the public
\* client rows, in order.
C16_Step ==
    (/\ LineStep
     /\ InClients
     /\ \/ status_version = 3 /\
             data[i'] \in {C3Alice, C3Bob, C3Mapped, C3MappedPrivate}
        \/ status_version = 1 /\ data[i'] = C1Bob)
    => IF AddrTable[RowRemote(data[i'])].is_private
       THEN /\ lookups' = lookups
            /\ \E k \in DOMAIN sessions' :
                  /\ sessions'[k]["username"] = RowUser(data[i'])
                  /\ sessions'[k]["location"] = "RFC1918"
       ELSE lookups' = Append(lookups, RowRemote(data[i']))
C16_LookupsArePublicRows == [][C16_Step]_vars

\* C19: the first line whose first field begins with 'GLOBAL' ends the
\* parse: the map returned is the map as it was before that line, and no
\* line after it is read, whatever it is.
C19_Step ==
    (LineStep /\ StartsWithGLOBAL(P(data[i'], 0))) =>
        /\ pc' = "returned"
        /\ sessions' = sessions
C19_NoneReadAfterGlobal ==
    \A n \in 1..i :
        StartsWithGLOBAL(P(data[n], 0)) => (n = i /\ pc = "returned")
C19_GlobalEndsParse == [][C19_Step]_vars /\ []C19_NoneReadAfterGlobal

\* the parse returned alice alone although a client row follows the
\* GLOBAL_STATS line
C19_Witness ==
    /\ pc = "returned"
    /\ i < Len(data)
    /\ data[i] = GlobalStats
    /\ data[i + 1] = C3Carol
    /\ client_section
    /\ DOMAIN sessions = {"10.8.0.6"}

\* the lines read so far that are the counter line named c
CounterLinesRead(c) == {n \in 1..i : P(data[n], 0) = c}

\* C20: sessions holds the key 'Client' exactly when an 'Auth read bytes'
\* line has been read; the other four counter lines alone store nothing;
\* no counter line stores a record under another key; and the record
\* under 'Client' holds, for each counter line read, the value of its most
\* recent occurrence and no field for a counter line not read.
C20_ClientRecord ==
    /\ "Client" \in DOMAIN sessions <=> CounterLinesRead("Auth read bytes") # {}
    /\ DOMAIN sessions \subseteq {"Client"}
    /\ "Client" \in DOMAIN sessions =>
          \A c \in DOMAIN CounterKey :
              IF CounterLinesRead(c) = {}
              THEN CounterKey[c] \notin DOMAIN sessions["Client"]
              ELSE LET last == CHOOSE n \in CounterLinesRead(c) :
                                   \A m \in CounterLinesRead(c) : m <= n
                   IN sessions["Client"][CounterKey[c]] = int(P(data[last], 1))

\* two 'TUN/TAP read bytes' lines, then 'Auth read bytes': the record
\* holds the second value
C20_Witness ==
    /\ pc = "returned"
    /\ data = <<TunRead1, TunRead2, TcpWrite, AuthRead0>>
    /\ sessions["Client"] =
          [tuntap_read |-> int(P(TunRead2, 1)),
           tcpudp_write |-> int(P(TcpWrite, 1)),
           auth_read |-> int(P(AuthRead0, 1))]

\* the second field of a header line, None when the line has one field
SecondField(parts) == IF HasIdx(parts, 1) THEN P(parts, 1) ELSE None

\* the dialect set by the most recent header line among the first k lines
\* of d, and V1 when there is none
RECURSIVE LastDialect(_, _)
LastDialect(d, k) ==
    IF k = 0 THEN 1
    ELSE IF P(d[k], 0) = "HEADER" THEN 3
    ELSE IF P(d[k], 0) \in {"Common Name", "ROUTING TABLE", "Virtual Address"}
    THEN 1
    ELSE LastDialect(d, k - 1)

\* C21: a 'HEADER' line sets the dialect to V3, stores no record, and
\* changes the section only when its second field is CLIENT_LIST (client
\* section) or ROUTING_TABLE (routes section); 'Common Name' sets V1 and
\* the client section; 'ROUTING TABLE' and 'Virtual Address' set V1 and the
\* routes section; 'Updated' and '>CLIENT' lines change neither dialect,
\* section nor sessions.  Hence the dialect in force at any line is the one
\* set by the most recent header line, and V1 before any header.
C21_Step ==
    LineStep =>
        /\ P(data[i'], 0) = "HEADER" =>
              /\ status_version' = 3
              /\ sessions' = sessions
              /\ client_section' =
                    (IF SecondField(data[i']) = "CLIENT_LIST" THEN TRUE
                     ELSE IF SecondField(data[i']) = "ROUTING_TABLE" THEN FALSE
                     ELSE client_section)
              /\ routes_section' =
                    (IF SecondField(data[i']) = "ROUTING_TABLE" THEN TRUE
                     ELSE IF SecondField(data[i']) = "CLIENT_LIST" THEN FALSE
                     ELSE routes_section)
        /\ P(data[i'], 0) = "Common Name" =>
              /\ status_version' = 1
              /\ client_section' /\ ~routes_section'
              /\ sessions' = sessions
        /\ P(data[i'], 0) \in {"ROUTING TABLE", "Virtual Address"} =>
              /\ status_version' = 1
              /\ routes_section' /\ ~client_section'
              /\ sessions' = sessions
        /\ (P(data[i'], 0) = "Updated" \/ StartsWithCLIENT(P(data[i'], 0))) =>
              UNCHANGED <<status_version, client_section, routes_section,
                          sessions>>
        /\ IsDataRow(data[i']) => status_version' = LastDialect(data, i)
C21_DialectOfLastHeader == status_version = LastDialect(data, i)
C21_HeaderDispatch == [][C21_Step]_vars /\ []C21_DialectOfLastHeader

\* after the V1 client header, a 'HEADER' line with another second field
\* and a '>CLIENT' line, a client row was read as a V3 row in the client
\* section
C21_Witness ==
    /\ i = 4
    /\ data = <<H1Clients, H3Other, ClientNote, C3Alice>>
    /\ status_version = 3
    /\ client_section /\ ~routes_section
    /\ DOMAIN sessions = {"10.8.0.6"}

\* C22: client_section and routes_section are never both true; a data row
\* read while neither is true leaves sessions as it was; a data row read
\* in the routes section adds no key, and any data row stores or changes
\* the record of at most one key.
C22_Step ==
    (LineStep /\ IsDataRow(data[i'])) =>
        /\ (~client_section /\ ~routes_section) => sessions' = sessions
        /\ InRoutes => DOMAIN sessions' = DOMAIN sessions
        /\ DOMAIN sessions \subseteq DOMAIN sessions'
        /\ Cardinality({k \in DOMAIN sessions' :
                           k \notin DOMAIN sessions
                           \/ sessions'[k] # sessions[k]}) <= 1
C22_NeverBoth == ~(client_section /\ routes_section)
C22_SectionsExclusive == [][C22_Step]_vars /\ []C22_NeverBoth

\* a client row read before any header stored nothing, the same row read
\* in the client section stored one session, and the routes section was
\* entered after it
C22_Witness ==
    /\ i = 4
    /\ data = <<C3Alice, H3Clients, C3Alice, H3Routes>>
    /\ routes_section /\ ~client_section
    /\ DOMAIN sessions = {"10.8.0.6"}
    /\ nuuid = 0

\* b is a stretch of consecutive characters of r
IsPartOf(b, r) ==
    \E a \in 1..(Len(r) + 1) :
        /\ a + Len(b) - 1 <= Len(r)
        /\ b = SubSeq(r, a, a + Len(b) - 1)

\* C23: whatever the chunks recv returns, the buffer send_command returns
\* for a command holds only characters the daemon sent in reply to that
\* command.
C23_BufferOfItsCommand ==
    \A n \in 1..Len(buffers) : IsPartOf(buffers[n], ReplyTo[Exchange[n]])

\* send_command has left its loop: it returned or recv raised
LoopLeft == sc_pc \in {"returned", "raised"}

\* C24: for every chunking and every placement of notification lines, and
\* also when the peer has closed the connection and recv returns empty
\* data, the loop of send_command does not go round forever: until the
\* loop is left there is a step that changes the state.
C24_ReadLoopExits == LoopLeft \/ ENABLED <<NextSend>>_vars

====
